---- MODULE Spec2Model ----
(***************************************************************************)
(* Model of shape_analysis.py: the three analysers (procrustes,            *)
(* curvature_index, fourier_analysis) and the batch loop of main.          *)
(*                                                                         *)
(* A float is an integer: a finite value in units of 1/Scale (fixed        *)
(* point), or the code of NaN, +inf or -inf.  The arithmetic follows IEEE  *)
(* 754 on the values that are not finite.                                  *)
(***************************************************************************)
EXTENDS Integers, Sequences, FiniteSets, TLC

----------------------------------------------------------------------------
(* Bounds of the model.                                                    *)

\* at most MaxFiles csv files in the working directory
MaxFiles == 3
\* a record holds at most MaxReps column pairs
MaxReps == 2
\* the records of the batch have MinPoints..MaxPoints rows
MaxPoints == 7
\* the shapes given to procrustes alone have ProcPoints points with
\* coordinates in 0..ProcCoord
ProcPoints == 3
ProcCoord == 1

\* the smallest record of the batch has MinPoints rows
MinPoints == 4

\* resolution of the fixed point representation of a float
Scale == 1000

----------------------------------------------------------------------------
(* Floating point arithmetic.                                              *)

\* the codes of the values that are not finite; a finite float is the
\* integer v that stands for v / Scale, and every finite value of the model
\* is far below Huge in magnitude
Huge == 1000000000
PInf == Huge
NInf == -Huge
NaN == Huge + 1

\* the float of an integer literal
Flt(n) == n * Scale

IsNaN(x) == x = NaN
IsInf(x) == x = PInf \/ x = NInf
IsFin(x) == ~IsNaN(x) /\ ~IsInf(x)

\* sign of a float that is not NaN: -1, 0, 1
Sgn(x) == IF x > 0 THEN 1 ELSE IF x < 0 THEN -1 ELSE 0

InfOf(s) == IF s > 0 THEN PInf ELSE NInf

Abs(n) == IF n < 0 THEN -n ELSE n

\* n / d rounded to nearest, d # 0
RoundDiv(n, d) ==
  LET q == (2 * Abs(n) + Abs(d)) \div (2 * Abs(d))
  IN  IF (n < 0) = (d < 0) THEN q ELSE -q

RECURSIVE SqrtSearch(_, _, _)
SqrtSearch(n, lo, hi) ==
  IF lo >= hi THEN lo
  ELSE LET mid == (lo + hi + 1) \div 2
       IN  IF mid * mid <= n THEN SqrtSearch(n, mid, hi)
           ELSE SqrtSearch(n, lo, mid - 1)

\* floor of the square root of n >= 0
Isqrt(n) == SqrtSearch(n, 0, IF n < 46340 THEN n ELSE 46340)

FNeg(x) == IF IsNaN(x) THEN NaN ELSE -x

FAdd(x, y) ==
  IF IsNaN(x) \/ IsNaN(y) THEN NaN
  ELSE IF IsInf(x) /\ IsInf(y) THEN (IF x = y THEN x ELSE NaN)
  ELSE IF IsInf(x) THEN x
  ELSE IF IsInf(y) THEN y
  ELSE x + y

FSub(x, y) == FAdd(x, FNeg(y))

FMul(x, y) ==
  IF IsNaN(x) \/ IsNaN(y) THEN NaN
  ELSE IF IsInf(x) \/ IsInf(y)
       THEN (IF Sgn(x) * Sgn(y) = 0 THEN NaN ELSE InfOf(Sgn(x) * Sgn(y)))
  ELSE RoundDiv(x * y, Scale)

\* numpy division: x / 0 is an infinity (0 / 0 is NaN), never an exception
FDiv(x, y) ==
  IF IsNaN(x) \/ IsNaN(y) THEN NaN
  ELSE IF IsInf(x) /\ IsInf(y) THEN NaN
  ELSE IF IsInf(x) THEN InfOf(Sgn(x) * (IF Sgn(y) < 0 THEN -1 ELSE 1))
  ELSE IF IsInf(y) THEN 0
  ELSE IF y = 0 THEN (IF x = 0 THEN NaN ELSE InfOf(Sgn(x)))
  ELSE RoundDiv(x * Scale, y)

\* np.sqrt: NaN for a negative argument
FSqrt(x) ==
  IF IsNaN(x) THEN NaN
  ELSE IF x = PInf THEN PInf
  ELSE IF x < 0 THEN NaN
  ELSE Isqrt(x * Scale)

\* x >= y on floats: false when either is NaN
FGeq(x, y) == ~IsNaN(x) /\ ~IsNaN(y) /\ x >= y

RECURSIVE FSumSeq(_, _)
\* left to right sum of a sequence of floats, starting from acc
FSumSeq(s, acc) ==
  IF s = << >> THEN acc ELSE FSumSeq(Tail(s), FAdd(acc, Head(s)))

FSum(s) == FSumSeq(s, 0)

FMean(s) == FDiv(FSum(s), Flt(Len(s)))

----------------------------------------------------------------------------
(* numpy arrays.  A 2-D array is the sequence of its rows, a row the       *)
(* sequence of its cells; [shape, v] carries the shape tuple with it.      *)

\* numpy computes an array once, when the expression is evaluated: the
\* concatenation makes TLC do the same for a sequence given by a rule
Array(f) == f \o << >>

\* column j (1-based) of the rows m
Col(m, j) == Array([i \in 1..Len(m) |-> m[i][j]])

\* data[:, j:j+2] with the 0-based column j of the source
Slice(m, j) == Array([i \in 1..Len(m) |-> <<m[i][j + 1], m[i][j + 2]>>])

RECURSIVE Flatten(_)
\* the cells of the rows m in row-major order
Flatten(m) == IF m = << >> THEN << >> ELSE Head(m) \o Flatten(Tail(m))

\* np.sum(m) of a 2-D array
NpSum(m) == FSum(Flatten(m))

\* how a call ends: it returns the value v, or raises the exception k
Return(x) == [k |-> "return", v |-> x]
Raise(e) == [k |-> e, v |-> 0]
IsRaise(x) == x.k \in {"IOError", "IndexError", "ValueError"}

----------------------------------------------------------------------------
(* procrustes(a, b), lines 41-61; a and b are N x 2 arrays.                *)

\* a - a.mean(axis=0): a new array, a itself is not written
Centre(a) ==
  LET mx == FMean(Col(a, 1))
      my == FMean(Col(a, 2))
  IN  Array([i \in 1..Len(a) |-> <<FSub(a[i][1], mx), FSub(a[i][2], my)>>])

\* np.sqrt((a1**2.0).sum(axis=1).mean())
RmsRadius(a1) ==
  FSqrt(FMean(Array([i \in 1..Len(a1) |->
                 FAdd(FMul(a1[i][1], a1[i][1]), FMul(a1[i][2], a1[i][2]))])))

\* a1 /= RmsRadius(a1)
UnitScale(a1) ==
  LET r == RmsRadius(a1)
  IN  Array([i \in 1..Len(a1) |-> <<FDiv(a1[i][1], r), FDiv(a1[i][2], r)>>])

\* math.atan2(num, denom).  The angle is kept as its unit vector
\* [c, s] = (cos theta, sin theta), which is all the code reads of it.
Atan2(num, denom) ==
  IF IsNaN(num) \/ IsNaN(denom) THEN [c |-> NaN, s |-> NaN]
  ELSE IF IsInf(num) /\ IsInf(denom)
       THEN LET d == Isqrt((Scale * Scale) \div 2)
            IN  [c |-> Sgn(denom) * d, s |-> Sgn(num) * d]
  ELSE IF IsInf(denom) THEN [c |-> Flt(Sgn(denom)), s |-> 0]
  ELSE IF IsInf(num) THEN [c |-> 0, s |-> Flt(Sgn(num))]
  ELSE IF num = 0 /\ denom = 0 THEN [c |-> Flt(1), s |-> 0]
  ELSE LET h == Isqrt(num * num + denom * denom)
       IN  [c |-> RoundDiv(denom * Scale, h),
            s |-> RoundDiv(num * Scale, h)]

Cos(theta) == theta.c
Sin(theta) == theta.s

\* np.dot(r_matrix, b1.transpose()).transpose()
Rotate(theta, b1) ==
  LET r00 == Cos(theta)
      r01 == FNeg(Sin(theta))
      r10 == Sin(theta)
      r11 == Cos(theta)
  IN  Array([i \in 1..Len(b1) |->
               <<FAdd(FMul(r00, b1[i][1]), FMul(r01, b1[i][2])),
                 FAdd(FMul(r10, b1[i][1]), FMul(r11, b1[i][2]))>>])

\* math.sqrt(((a1 - b2)**2.0).sum())
Residual(a1, b2) ==
  FSqrt(NpSum([i \in 1..Len(a1) |->
                 <<FMul(FSub(a1[i][1], b2[i][1]), FSub(a1[i][1], b2[i][1])),
                   FMul(FSub(a1[i][2], b2[i][2]), FSub(a1[i][2], b2[i][2]))>>]))

\* line 49 left out: the candidate keeps its own scale
ScaleB_Omitted(b1) == b1

\* line 49: the candidate scaled to unit variance
ScaleB(b1) == UnitScale(b1)

procrustes(a, b) ==
  LET a1 == UnitScale(Centre(a))
      b1 == ScaleB(Centre(b))
  IN  \* b1[:,0]*a1[:,1] broadcasts only arrays of one length
      IF Len(a) # Len(b) THEN Raise("ValueError")
      ELSE LET num == FSum([i \in 1..Len(a) |->
                              FSub(FMul(b1[i][1], a1[i][2]),
                                   FMul(b1[i][2], a1[i][1]))])
               denom == FSum([i \in 1..Len(a) |->
                                FAdd(FMul(b1[i][1], a1[i][1]),
                                     FMul(b1[i][2], a1[i][2]))])
               theta == Atan2(num, denom)
               b2 == Rotate(theta, b1)
           IN  Return(Residual(a1, b2))

----------------------------------------------------------------------------
(* curvature_index(data), lines 64-85, and fourier_analysis(data), lines   *)
(* 88-98.  Their floats are kept as terms over the shape they are computed *)
(* from; what is modelled exactly is when they raise and how long the      *)
(* spectrum is.                                                            *)

\* order of the Butterworth filter
ButterOrder == 5

curvature_index(data) ==
  LET n == Len(data)
      \* butter(5, 1/4) returns ButterOrder + 1 coefficients in b and in a
      \* and filtfilt pads by 3 * max(len(a), len(b)) samples
      padlen == 3 * (ButterOrder + 1)
  IN  \* np.gradient needs two points
      IF n < 2 THEN Raise("ValueError")
      \* filtfilt refuses an input, here of 3n samples, no longer than padlen
      ELSE IF 3 * n <= padlen THEN Raise("ValueError")
      ELSE Return([k |-> "mci", v |-> data])

\* np.fft.fft in place of np.fft.rfft: the full spectrum
RfftLen_Full(n) == n

\* len(np.fft.rfft(ta)) for the n tangent angles ta
RfftLen(n) == n \div 2 + 1

fourier_analysis(data) ==
  LET bins == RfftLen(Len(data))
  IN  [rl |-> [i \in 1..bins |-> [k |-> "real", bin |-> i - 1, v |-> data]],
       im |-> [i \in 1..bins |-> [k |-> "imag", bin |-> i - 1, v |-> data]],
       mod |-> [i \in 1..bins |-> [k |-> "mod", bin |-> i - 1, v |-> data]]]

\* seq[i] of Python: whether the 0-based index i is in range
InRange(seq, i) == i < Len(seq)
Item(seq, i) == seq[i + 1]

----------------------------------------------------------------------------
(* The working directory: which csv files exist and what they hold.        *)

Subjects == {"P1", "P2"}
Symbols == {"rest", "TT", "KK"}
\* the (id, symbol) a file name splits into, line 119
Files == [id : Subjects, symbol : Symbols]

\* two resting shapes of n points
RestShape(q, n) == [i \in 1..n |-> <<Flt(i), Flt((q * i) % 4)>>]
\* the finite shape in column pair r of a record of n points
FiniteShape(r, n) == [i \in 1..n |-> <<Flt(i), Flt((i * i + r * i) % 5)>>]

\* shape s with non-finite cells
Spoil(kind, s) ==
  CASE kind = "nan" -> [s EXCEPT ![2][1] = NaN]
    [] kind = "pinf" -> [s EXCEPT ![1][2] = PInf]
    [] kind = "mix" -> [s EXCEPT ![1][1] = PInf, ![3][2] = NInf]
    [] OTHER -> s

\* the rows of the table whose column pairs are the shapes, each of n points
HStack(shapes, n) ==
  [i \in 1..n |-> Flatten([r \in 1..Len(shapes) |-> shapes[r][i]])]

\* n rows, reps column pairs; pair r is spoilt as kinds[r] says, and is
\* finite from Len(kinds) on
Table(n, reps, kinds) ==
  HStack([r \in 1..reps |->
            IF r <= Len(kinds) THEN Spoil(kinds[r], FiniteShape(r - 1, n))
            ELSE FiniteShape(r - 1, n)], n)

\* a table of one column
OneColumn(n) == [i \in 1..n |-> <<Flt(i)>>]
\* a table of three columns
ThreeColumns(n) == [i \in 1..n |-> Table(n, 1, << >>)[i] \o <<Flt(i)>>]

\* what a non-rest file may hold
DataPool ==
  {Table(MaxPoints, reps, << >>) : reps \in 1..MaxReps}
    \cup {Table(MaxPoints, MaxReps, <<"nan">>),
          Table(MaxPoints, MaxReps, <<"pinf", "mix">>)}
    \cup {Table(n, 1, << >>) : n \in MinPoints..(MaxPoints - 1)}
    \cup {OneColumn(MaxPoints), ThreeColumns(MaxPoints)}

\* what a rest file may hold
RestPool ==
  {RestShape(1, MaxPoints), RestShape(2, MaxPoints),
   OneColumn(MaxPoints), Table(MaxPoints, 2, << >>)}

\* np.genfromtxt: a table of one column (or one row) comes back 1-D
genfromtxt(text) ==
  [shape |-> IF Len(text[1]) = 1 THEN <<Len(text)>>
             ELSE IF Len(text) = 1 THEN <<Len(text[1])>>
             ELSE <<Len(text), Len(text[1])>>,
   v |-> text]

----------------------------------------------------------------------------
(* main(), lines 101-186.                                                  *)

VARIABLES
  file_list,      \* the csv files found, as their (id, symbol)
  loaded,         \* per file, the array np.genfromtxt returned for it
  ids,            \* the ids the loop of line 131 has still to take
  current_id,
  current_files,  \* the files the loop of line 156 has still to take
  doProcrustes,
  rdata,
  file_name,
  data,
  num_reps,
  rep,
  rows,           \* the data rows written, in order
  calls,          \* the calls of procrustes made: [id, a, b, ret]
  pc,             \* "ids", "files", "reps": the loop main is in;
                  \* "done": main returned; "error": an exception left main
  exc,            \* the exception raised and the line that raised it
  arg_a, arg_b,   \* the arguments and the result of a call of procrustes
  ret             \* on its own

vars == <<file_list, loaded, ids, current_id, current_files, doProcrustes,
          rdata, file_name, data, num_reps, rep, rows, calls, pc, exc,
          arg_a, arg_b, ret>>

mainVars == <<file_list, loaded, ids, current_id, current_files,
              doProcrustes, rdata, file_name, data, num_reps, rep, rows,
              calls, pc, exc>>

NoArray == [shape |-> << >>, v |-> << >>]
NoFile == [id |-> "", symbol |-> ""]
NoExc == [type |-> "none", line |-> 0]
NoRet == [k |-> "none", v |-> 0]
Exc(e, l) == [type |-> e.k, line |-> l]

\* line 144 left out: doProcrustes keeps the value of the previous id
DoProcrustesKept(previous) == previous

\* line 144
DoProcrustesWithoutRest(previous) == FALSE

\* line 150 left out: any number of columns passes
RestCheck_NoCount(arr) ==
  IF Len(arr.shape) < 2 THEN Raise("IndexError") ELSE Return(0)

\* lines 149-150: rdata.shape[1] != 2
RestCheck(arr) ==
  IF Len(arr.shape) < 2 THEN Raise("IndexError")
  ELSE IF arr.shape[2] # 2 THEN Raise("IOError")
  ELSE Return(0)

\* lines 159-160 left out: the rest file is read as a record
SkipFile_Never(symbol) == FALSE

\* line 159
SkipFile(symbol) == symbol = "rest"

\* the parity check of line 164 left out
ColumnCheck_NoParity(arr) ==
  IF Len(arr.shape) < 2 THEN Raise("IndexError") ELSE Return(0)

\* line 164: data.shape[1] % 2 != 0
ColumnCheck(arr) ==
  IF Len(arr.shape) < 2 THEN Raise("IndexError")
  ELSE IF arr.shape[2] % 2 # 0 THEN Raise("IOError")
  ELSE Return(0)

\* range(0, num_reps - 1)
NumReps_OffByOne(columns) == columns \div 2 - 1

\* line 165
NumReps(columns) == columns \div 2

\* j = rep in place of j = 2*rep
ColumnOf_Unscaled(r) == r

\* line 170
ColumnOf(r) == 2 * r

\* np.isnan of the first cell only
SliceIsNaN_FirstCell(s) == IsNaN(s[1][1])

\* line 173: np.isnan(np.sum(data[:,j:j+2]))
SliceIsNaN(s) == IsNaN(NpSum(s))

\* a -= a.mean(axis=0): the reference centred in place
ReferenceAfter_InPlace(a) == Centre(a)

\* the reference array after procrustes(a, b) returned: line 44 makes a new
\* array a1 and line 48 divides a1 in place, a is not written
ReferenceAfter(a) == a

\* line 186
Row(id, symbol, r, mci, proc, sp) ==
  [ID |-> id, symbol |-> symbol, repetition |-> r, MCI |-> mci,
   procrustes |-> proc,
   real_1 |-> Item(sp.rl, 1), imag_1 |-> Item(sp.im, 1),
   mod_1 |-> Item(sp.mod, 1),
   real_2 |-> Item(sp.rl, 2), imag_2 |-> Item(sp.im, 2),
   mod_2 |-> Item(sp.mod, 2),
   real_3 |-> Item(sp.rl, 3), imag_3 |-> Item(sp.im, 3),
   mod_3 |-> Item(sp.mod, 3)]

Idle ==
  /\ loaded = [f \in file_list |-> NoArray]
  /\ ids = {f.id : f \in file_list}
  /\ current_id = ""
  /\ current_files = {}
  /\ doProcrustes = FALSE
  /\ rdata = NoArray
  /\ file_name = NoFile
  /\ data = NoArray
  /\ num_reps = 0
  /\ rep = 0
  /\ rows = << >>
  /\ calls = {}
  /\ exc = NoExc

Init ==
  /\ file_list \in {fl \in SUBSET Files : Cardinality(fl) <= MaxFiles}
  /\ Idle
  /\ pc = "ids"
  /\ arg_a = << >>
  /\ arg_b = << >>
  /\ ret = NoRet

\* lines 131-153: the next id, and its resting shape.  Two files of one id
\* and one symbol cannot exist, so rest_file has at most one element and
\* line 153 is not reached.
NextSubject ==
  /\ pc = "ids"
  /\ \E id \in ids :
       LET files == {f \in file_list : f.id = id}
           rest_file == {f \in files : f.symbol = "rest"}
       IN  /\ ids' = ids \ {id}
           /\ current_id' = id
           /\ current_files' = files
           /\ IF rest_file = {}
              THEN /\ doProcrustes' = DoProcrustesWithoutRest(doProcrustes)
                   /\ pc' = "files"
                   /\ UNCHANGED <<rdata, loaded, exc>>
              ELSE \E text \in RestPool :
                     LET arr == genfromtxt(text)
                         check == RestCheck(arr)
                     IN  /\ doProcrustes' = TRUE
                         /\ rdata' = arr
                         /\ loaded' =
                              [loaded EXCEPT ![CHOOSE f \in rest_file : TRUE] = arr]
                         /\ IF IsRaise(check)
                            THEN /\ exc' = Exc(check, IF check.k = "IOError"
                                                       THEN 150 ELSE 149)
                                 /\ pc' = "error"
                            ELSE /\ pc' = "files"
                                 /\ UNCHANGED exc
  /\ UNCHANGED <<file_list, file_name, data, num_reps, rep, rows, calls,
                 arg_a, arg_b, ret>>

\* line 131: no id is left, main returns
Finish ==
  /\ pc = "ids"
  /\ ids = {}
  /\ pc' = "done"
  /\ UNCHANGED <<file_list, loaded, ids, current_id, current_files,
                 doProcrustes, rdata, file_name, data, num_reps, rep, rows,
                 calls, exc, arg_a, arg_b, ret>>

\* lines 156-166: the next file of the current id
NextFile ==
  /\ pc = "files"
  /\ \E f \in current_files :
       /\ current_files' = current_files \ {f}
       /\ IF SkipFile(f.symbol)
          THEN UNCHANGED <<loaded, file_name, data, num_reps, rep, pc, exc>>
          ELSE \E text \in DataPool :
                 LET arr == genfromtxt(text)
                     check == ColumnCheck(arr)
                 IN  /\ file_name' = f
                     /\ data' = arr
                     /\ loaded' = [loaded EXCEPT ![f] = arr]
                     /\ IF IsRaise(check)
                        THEN /\ exc' = Exc(check, 164)
                             /\ pc' = "error"
                             /\ UNCHANGED <<num_reps, rep>>
                        ELSE /\ num_reps' = NumReps(arr.shape[2])
                             /\ rep' = 0
                             /\ pc' = "reps"
                             /\ UNCHANGED exc
  /\ UNCHANGED <<file_list, ids, current_id, doProcrustes, rdata, rows,
                 calls, arg_a, arg_b, ret>>

\* line 156: no file is left for the current id
EndSubject ==
  /\ pc = "files"
  /\ current_files = {}
  /\ pc' = "ids"
  /\ UNCHANGED <<file_list, loaded, ids, current_id, current_files,
                 doProcrustes, rdata, file_name, data, num_reps, rep, rows,
                 calls, exc, arg_a, arg_b, ret>>

\* lines 168-186: one repetition
Repetition ==
  /\ pc = "reps"
  /\ rep < num_reps
  /\ LET j == ColumnOf(rep)
         shape == Slice(data.v, j)
     IN  IF SliceIsNaN(shape)
         THEN /\ rep' = rep + 1
              /\ UNCHANGED <<rdata, rows, calls, pc, exc>>
         ELSE LET proc == IF doProcrustes THEN procrustes(rdata.v, shape)
                          ELSE Return(0)
                  mci == curvature_index(shape)
                  sp == fourier_analysis(shape)
              IN  /\ calls' = IF doProcrustes
                              THEN calls \cup {[id |-> current_id,
                                                a |-> rdata.v, b |-> shape,
                                                ret |-> proc]}
                              ELSE calls
                  /\ rdata' = IF doProcrustes
                              THEN [rdata EXCEPT !.v = ReferenceAfter(rdata.v)]
                              ELSE rdata
                  /\ IF IsRaise(proc)
                     THEN /\ exc' = Exc(proc, 178)
                          /\ pc' = "error"
                          /\ UNCHANGED <<rows, rep>>
                     ELSE IF IsRaise(mci)
                     THEN /\ exc' = Exc(mci, 182)
                          /\ pc' = "error"
                          /\ UNCHANGED <<rows, rep>>
                     ELSE IF ~InRange(sp.rl, 3)
                     THEN /\ exc' = Exc(Raise("IndexError"), 186)
                          /\ pc' = "error"
                          /\ UNCHANGED <<rows, rep>>
                     ELSE /\ rows' = Append(rows,
                                Row(current_id, file_name.symbol, rep, mci.v,
                                    proc.v, sp))
                          /\ rep' = rep + 1
                          /\ UNCHANGED <<pc, exc>>
  /\ UNCHANGED <<file_list, loaded, ids, current_id, current_files,
                 doProcrustes, file_name, data, num_reps, arg_a, arg_b, ret>>

\* line 168: the record has no repetition left
EndFile ==
  /\ pc = "reps"
  /\ rep = num_reps
  /\ pc' = "files"
  /\ UNCHANGED <<file_list, loaded, ids, current_id, current_files,
                 doProcrustes, rdata, file_name, data, num_reps, rep, rows,
                 calls, exc, arg_a, arg_b, ret>>

Next ==
  \/ NextSubject
  \/ Finish
  \/ NextFile
  \/ EndSubject
  \/ Repetition
  \/ EndFile

Spec == Init /\ [][Next]_vars

----------------------------------------------------------------------------
(* procrustes on its own, over every shape of ProcPoints points with       *)
(* coordinates in 0..ProcCoord.                                            *)

ProcShapes ==
  {[i \in 1..ProcPoints |-> <<Flt(f[i][1]), Flt(f[i][2])>>] :
     f \in [1..ProcPoints -> (0..ProcCoord) \X (0..ProcCoord)]}

\* three candidates to compare every shape with
ProbeShapes == {[i \in 1..ProcPoints |-> <<Flt(i), Flt((q * i * i) % 3)>>] :
                  q \in 0..2}

InitProcrustes ==
  /\ file_list = {}
  /\ Idle
  /\ pc = "procrustes"
  /\ arg_a \in ProcShapes
  /\ arg_b \in {arg_a} \cup ProbeShapes
  /\ ret = NoRet

CallProcrustes ==
  /\ pc = "procrustes"
  /\ ret = NoRet
  /\ ret' = procrustes(arg_a, arg_b)
  /\ UNCHANGED <<mainVars, arg_a, arg_b>>

SpecProcrustes == InitProcrustes /\ [][CallProcrustes]_vars

----------------------------------------------------------------------------
(* What the properties below speak of.                                     *)

RestFileOf(id) == [id |-> id, symbol |-> "rest"]
FileOf(row) == [id |-> row.ID, symbol |-> row.symbol]
HasRest(id) == RestFileOf(id) \in file_list
Read(f) == loaded[f] # NoArray
Records == {f \in file_list : f.symbol # "rest"}
\* the non-rest files read so far that passed the check of line 164
ReadRecords ==
  {f \in Records : Read(f) /\ Len(loaded[f].shape) = 2
                     /\ loaded[f].shape[2] % 2 = 0}
Points(f) == Len(loaded[f].v)
Columns(f) == Len(loaded[f].v[1])
Reps(f) == 0..(Columns(f) \div 2 - 1)
\* columns 2r and 2r+1 of the record f
ShapeOf(f, r) ==
  [i \in 1..Points(f) |-> <<loaded[f].v[i][2 * r + 1], loaded[f].v[i][2 * r + 2]>>]
Cells(s) == {s[i][c] : i \in 1..Len(s), c \in 1..2}
AllFinite(s) == \A x \in Cells(s) : IsFin(x)
\* a NaN cell, or infinities of both signs: the sum of the cells is NaN
NaNSum(s) == NaN \in Cells(s) \/ (PInf \in Cells(s) /\ NInf \in Cells(s))
RowsAt(f, r) ==
  {i \in 1..Len(rows) : FileOf(rows[i]) = f /\ rows[i].repetition = r}
RowsOfSubject(id) == {i \in 1..Len(rows) : rows[i].ID = id}
\* every repetition of f that passes the check of line 173 has its row
Complete(f) == \A r \in Reps(f) : ~NaNSum(ShapeOf(f, r)) => RowsAt(f, r) # {}
\* main has come to repetition r of the record f
Taken(f, r) ==
  \/ f # file_name
  \/ pc \in {"ids", "files", "done"}
  \/ r < rep
  \/ pc = "error" /\ r = rep
NonDegenerate(s) == \E i, j \in 1..Len(s) : s[i] # s[j]

----------------------------------------------------------------------------
(* C1, as amended.  A repetition whose slice holds a NaN, or infinities of *)
(* both signs, is skipped: no row is written for it, and no exception is   *)
(* raised while main is at it, and the repetitions, symbols and subjects   *)
(* after it are processed: when main returns each of them has its row.     *)
C1_NaNSliceSkipped ==
  /\ \A f \in ReadRecords : \A r \in Reps(f) :
       NaNSum(ShapeOf(f, r)) => RowsAt(f, r) = {}
  /\ exc.line \in {178, 182, 186} => ~NaNSum(ShapeOf(file_name, rep))
  /\ pc = "done" => \A f \in Records : Read(f) /\ Complete(f)

\* a run that skipped repetition 0 of a record and then wrote rows for its
\* repetition 1, for another symbol and for another subject
C1_Witness ==
  /\ pc = "done"
  /\ \E f \in ReadRecords :
       /\ NaN \in Cells(ShapeOf(f, 0))
       /\ RowsAt(f, 0) = {}
       /\ \E i, j, k \in 1..Len(rows) :
            /\ i < j /\ j < k
            /\ FileOf(rows[i]) = f /\ rows[i].repetition = 1
            /\ rows[j].ID = f.id /\ rows[j].symbol # f.symbol
            /\ rows[k].ID # f.id

\* C1 as stated: a slice with any non-finite cell gets no row
C1_Original ==
  \A f \in ReadRecords : \A r \in Reps(f) :
    ~AllFinite(ShapeOf(f, r)) => RowsAt(f, r) = {}

(* C2.  A subject without a rest file has procrustes = 0 in every row and  *)
(* procrustes is never called for it, whatever was processed before.       *)
C2_NoRestSentinel ==
  \A id \in Subjects :
    ~HasRest(id) =>
      /\ \A i \in RowsOfSubject(id) : rows[i].procrustes = 0
      /\ \A c \in calls : c.id # id

\* rows of a subject without rest written after rows of a subject with one
C2_Witness ==
  \E i, j \in 1..Len(rows) :
    /\ i < j
    /\ HasRest(rows[i].ID)
    /\ ~HasRest(rows[j].ID)

(* C3, as amended.  A record of an odd number of columns raises at line    *)
(* 164 and the exception ends the run: the record has no row, the subjects *)
(* not yet begun have no row, and the rows written before (those of the    *)
(* subject's earlier records among them) stay in the output.               *)
C3_OddColumnsAbort ==
  /\ \A f \in Records :
       (Read(f) /\ Columns(f) % 2 # 0) =>
         (pc = "error" /\ exc.line = 164 /\ file_name = f)
  /\ exc.line = 164 =>
       /\ pc = "error"
       /\ \A i \in 1..Len(rows) : FileOf(rows[i]) # file_name
       /\ \A id \in ids : RowsOfSubject(id) = {}
       /\ \A f \in ReadRecords : Complete(f)

\* the run ended at an odd record, with rows of the same subject written
\* and another subject not begun
C3_Witness ==
  /\ exc.line = 164
  /\ Columns(file_name) % 2 # 0
  /\ RowsOfSubject(current_id) # {}
  /\ ids # {}

\* C3 as stated: the subject of the odd record has no row and every record
\* of every other subject is processed and has its rows
C3_Original ==
  \A f \in Records :
    (Read(f) /\ Columns(f) % 2 # 0) =>
      /\ exc.type # "none"
      /\ RowsOfSubject(f.id) = {}
      /\ \A g \in Records : g.id # f.id => (g \in ReadRecords /\ Complete(g))

(* C4.  In every row of a subject with a rest file, procrustes is what the *)
(* call procrustes(rest shape of that subject, shape of the repetition)    *)
(* returned; every call is given the rest array as it was loaded for the   *)
(* subject of the call.                                                    *)
C4_RestIsReference ==
  /\ \A i \in 1..Len(rows) :
       HasRest(rows[i].ID) =>
         \E c \in calls :
           /\ c.id = rows[i].ID
           /\ c.a = loaded[RestFileOf(c.id)].v
           /\ c.b = ShapeOf(FileOf(rows[i]), rows[i].repetition)
           /\ c.ret = Return(rows[i].procrustes)
  /\ \A c \in calls : HasRest(c.id) /\ c.a = loaded[RestFileOf(c.id)].v
  /\ (pc \in {"files", "reps"} /\ HasRest(current_id)) =>
       rdata = loaded[RestFileOf(current_id)]

\* two rows of the current subject, written after another subject with a
\* different rest shape was processed
C4_Witness ==
  /\ pc = "reps"
  /\ HasRest(current_id)
  /\ Cardinality(RowsOfSubject(current_id)) >= 2
  /\ \E id \in Subjects \ {current_id} :
       /\ HasRest(id)
       /\ Read(RestFileOf(id))
       /\ loaded[RestFileOf(id)] # loaded[RestFileOf(current_id)]

C6_NoRestRow == \A i \in 1..Len(rows) : rows[i].symbol # "rest"

\* main returned, having read a rest file and written rows for its subject
C6_Witness ==
  /\ pc = "done"
  /\ \E id \in Subjects :
       /\ HasRest(id)
       /\ Read(RestFileOf(id))
       /\ RowsOfSubject(id) # {}

(* C7.  The rows of one record are written in increasing order of          *)
(* repetition, and the row of repetition r is computed from the columns    *)
(* 2r and 2r+1 of the record, whether or not repetitions before it were    *)
(* skipped.                                                                *)
C7_RepetitionIsColumnPair ==
  /\ \A i, j \in 1..Len(rows) :
       (i < j /\ FileOf(rows[i]) = FileOf(rows[j])) =>
         rows[i].repetition < rows[j].repetition
  /\ \A i \in 1..Len(rows) :
       LET f == FileOf(rows[i])
           r == rows[i].repetition
       IN  /\ f \in file_list
           /\ r \in Reps(f)
           /\ rows[i].MCI = [k |-> "mci", v |-> ShapeOf(f, r)]
           /\ rows[i].real_1 = [k |-> "real", bin |-> 1, v |-> ShapeOf(f, r)]
           /\ rows[i].mod_3 = [k |-> "mod", bin |-> 3, v |-> ShapeOf(f, r)]

\* a record whose repetition 0 was skipped and whose repetition 1 has a
\* row, and a record with rows for repetitions 0 and 1
C7_Witness ==
  /\ \E f \in ReadRecords :
       /\ NaNSum(ShapeOf(f, 0))
       /\ RowsAt(f, 0) = {}
       /\ RowsAt(f, 1) # {}
  /\ \E f \in ReadRecords : RowsAt(f, 0) # {} /\ RowsAt(f, 1) # {}

(* C8, as amended.  A rest record that does not have exactly 2 columns     *)
(* raises at lines 149-150, before any repetition of its subject, and the  *)
(* exception ends the run: the subject and the subjects not yet begun have *)
(* no row, the rows written before stay in the output.                     *)
C8_BadRestAbort ==
  /\ \A id \in Subjects :
       (HasRest(id) /\ Read(RestFileOf(id))
          /\ Columns(RestFileOf(id)) # 2) =>
         /\ pc = "error"
         /\ exc.line \in {149, 150}
         /\ current_id = id
         /\ RowsOfSubject(id) = {}
  /\ exc.line \in {149, 150} =>
       /\ pc = "error"
       /\ Columns(RestFileOf(current_id)) # 2
       /\ \A id \in ids : RowsOfSubject(id) = {}
       /\ \A f \in ReadRecords : Complete(f)

\* the run ended at a rest record of four columns, after the rows of
\* another subject
C8_Witness ==
  /\ exc = [type |-> "IOError", line |-> 150]
  /\ Columns(RestFileOf(current_id)) = 4
  /\ rows # << >>

\* C8 as stated: the subject has no row and every record of every other
\* subject is processed and has its rows
C8_Original ==
  \A id \in Subjects :
    (HasRest(id) /\ Read(RestFileOf(id)) /\ Columns(RestFileOf(id)) # 2) =>
      /\ exc.type # "none"
      /\ RowsOfSubject(id) = {}
      /\ \A g \in Records : g.id # id => (g \in ReadRecords /\ Complete(g))

(* C9.  For non-degenerate shapes of one length procrustes returns a value *)
(* >= 0, and procrustes(S, S) = 0.                                         *)
C9_ProcrustesNonNegative ==
  (ret # NoRet /\ NonDegenerate(arg_a) /\ NonDegenerate(arg_b)) =>
    /\ ret.k = "return"
    /\ FGeq(ret.v, 0)
    /\ arg_a = arg_b => ret.v = 0

\* procrustes returned 0 for a non-degenerate shape and itself
C9_Witness ==
  /\ ret # NoRet
  /\ NonDegenerate(arg_a)
  /\ arg_a = arg_b
  /\ ret = Return(0)

(* C10, as amended.  fourier_analysis returns floor(N/2)+1 bins, and bins  *)
(* 1, 2 and 3 can be read exactly when N >= 6; curvature_index raises for  *)
(* N <= 6.  A row is written only for a record of N >= 7 points: a record  *)
(* of fewer points ends the run with a ValueError at its first repetition  *)
(* that passes the check of line 173.                                      *)
C10_RowsNeedSevenPoints ==
  /\ \A f \in ReadRecords : \A r \in Reps(f) :
       LET sp == fourier_analysis(ShapeOf(f, r))
       IN  /\ Len(sp.rl) = Points(f) \div 2 + 1
           /\ Len(sp.im) = Len(sp.rl) /\ Len(sp.mod) = Len(sp.rl)
           /\ InRange(sp.rl, 3) <=> Points(f) >= 6
           /\ IsRaise(curvature_index(ShapeOf(f, r))) <=> Points(f) <= 6
  /\ \A i \in 1..Len(rows) : Points(FileOf(rows[i])) >= 7
  /\ \A f \in ReadRecords :
       (Points(f) <= 6 /\ ~NaNSum(ShapeOf(f, 0))) =>
         /\ file_name = f
         /\ \/ pc = "reps" /\ rep = 0
            \/ pc = "error" /\ exc.type = "ValueError"
                 /\ exc.line \in {178, 182}

\* the run ended in curvature_index at a finite shape of MinPoints points
C10_Witness ==
  /\ pc = "error"
  /\ exc = [type |-> "ValueError", line |-> 182]
  /\ Points(file_name) = MinPoints
  /\ AllFinite(ShapeOf(file_name, rep))

\* C10 as stated: for N >= 4 the bins 1, 2 and 3 can be read and the row of
\* every valid repetition main has come to is written
C10_Original ==
  \A f \in ReadRecords : \A r \in Reps(f) :
    (Points(f) >= MinPoints /\ AllFinite(ShapeOf(f, r)) /\ Taken(f, r)) =>
      /\ InRange(fourier_analysis(ShapeOf(f, r)).rl, 3)
      /\ RowsAt(f, r) # {}

====
